---- MODULE Spec2Model ----
(***************************************************************************)
(* The trip tracking engine of drive-timer: handleStart, startTracking     *)
(* (countdown interval and self-rescheduling refresh), getRouteData,       *)
(* calculateTargetTime and handleStop, as written in the two variants of   *)
(* App.jsx the repository holds (src/src/App.jsx and src/unnamed/part_000).*)
(*                                                                         *)
(* Time is in whole seconds.  An instant is a number of seconds since      *)
(* local midnight of day 0; a day has 86400 seconds.  Coordinates are      *)
(* points on a line.  A required speed is the exact fraction n/d (km/h).   *)
(*                                                                         *)
(* Every handler runs to its next await in one step.  The awaits are the   *)
(* geocoding search, getRouteData and getCurrentPosition; each is answered *)
(* (or fails) in a later step, in any order, or never.  A timer fires only *)
(* once the clock has reached its due time, and may fire late.  The clock  *)
(* moves in steps of ClockStep seconds.                                    *)
(***************************************************************************)
EXTENDS Integers, Sequences, FiniteSets, TLC

VARIABLES
    variant,        \* which App.jsx is running: "base" (src/src/App.jsx) or "hist" (src/unnamed/part_000)
    now,            \* the wall clock, new Date()
    isActive,       \* useState: the tracking view is shown
    isLoading,      \* useState: handleStart is in progress
    error,          \* useState: the message shown in the setup view
    destCoords,     \* useState: the chosen destination, NoCoords when only text is given
    currentPos,     \* useState
    routePolyline,  \* useState
    distance,       \* useState (km)
    requiredSpeed,  \* useState (km/h), a fraction [n, d]
    timeLeft,       \* useState (s)
    nextRefresh,    \* useState (s)
    refreshTimer,   \* useRef: handle of the last setTimeout
    countdownTimer, \* useRef: handle of the last setInterval
    intervals,      \* the host's live setInterval entries
    timeouts,       \* the host's pending setTimeout entries
    hs,             \* the handleStart call in progress: where it waits, and the locals it still reads
    posReq,         \* getCurrentPosition calls of refresh cycles not yet answered
    routeReq,       \* getRouteData calls of refresh cycles not yet answered
    trips,          \* number of startTracking calls so far (the timer handles)
    lastAct,        \* history: the handler that ran last, with the trip, distance and remaining time it worked on
    pub,            \* history: the setters the last handler called
    afterStop,      \* history: handleStop has run and handleStart was not called since
    expired,        \* history: per trip whose countdown is live, how often its tick called handleStop
    probe,          \* input of the function under test (pure-function specifications)
    result          \* its output

vars == <<variant, now, isActive, isLoading, error, destCoords, currentPos,
          routePolyline, distance, requiredSpeed, timeLeft, nextRefresh,
          refreshTimer, countdownTimer, intervals, timeouts, hs, posReq,
          routeReq, trips, lastAct, pub, afterStop, expired, probe, result>>

progVars == <<variant, now, isActive, isLoading, error, destCoords, currentPos,
          routePolyline, distance, requiredSpeed, timeLeft, nextRefresh,
          refreshTimer, countdownTimer, intervals, timeouts, hs, posReq,
          routeReq, trips, lastAct, pub, afterStop, expired>>

----------------------------------------------------------------------------
(* Bounds of the model *)

MaxSteps == 1       \* clock advances per behaviour
ClockStep == 150    \* seconds per clock advance
MaxTrips == 2       \* startTracking calls per behaviour
MaxInFlight == 2    \* refresh cycles awaiting their position or their route
LiveTrips == 1      \* startTracking calls per behaviour of SpecLive

(* Program constants *)

DaySeconds == 86400
TickSeconds == 1
NextFar == 30
NextNear == 5
NextClose == 3
NextFinal == 1
LimitFinal == 60
LimitClose == 120
LimitNear == 300
HourSeconds == 3600

StartClock == 23 * 3600 + 50 * 60      \* day 0, 23:50:00

Variants == {"base", "hist"}
NoCoords == -1                          \* null
DefaultPos == 0                         \* the default position of useState
Positions == {2}                        \* what the position provider may report
Dests == {2, 3}                         \* what geocoding / the user may choose
NoTimer == 0                            \* a ref holding null

----------------------------------------------------------------------------
(* Pure helpers *)

Abs(x) == IF x < 0 THEN 0 - x ELSE x

\* Math.max(0, x)
Max0(x) == IF x < 0 THEN 0 ELSE x

\* parseInt of a string of decimal digits (a sequence of digits); the empty
\* string gives NaN, which callers test with ParseOk.
RECURSIVE ParseDigits(_)
ParseDigits(s) ==
    IF s = <<>> THEN 0
    ELSE 10 * ParseDigits(SubSeq(s, 1, Len(s) - 1)) + s[Len(s)]

ParseOk(s) == s # <<>>

\* parseInt(s) || 0
ParseOrZero(s) == IF ParseOk(s) THEN ParseDigits(s) ELSE 0

\* Date.setHours(h, m, s, 0) on the date of instant t
SetHours(t, h, m, s) == (t \div DaySeconds) * DaySeconds + h * HourSeconds + m * 60 + s

\* the hour of the 24-hour clock from the parsed hour and the AM/PM toggle
Hours24(hours, ampm) ==
    IF ampm = "PM" /\ hours < 12 THEN hours + 12
    ELSE IF ampm = "AM" /\ hours = 12 THEN 0
    ELSE hours

\* mutant of calculateTargetTime: a target equal to the current instant is kept
calculateTargetTimeStrict(arrivalTime, t) ==
    LET hours   == Hours24(ParseDigits(arrivalTime.hh), arrivalTime.ampm)
        minutes == ParseOrZero(arrivalTime.mm)
        seconds == ParseOrZero(arrivalTime.ss)
        target  == SetHours(t, hours, minutes, seconds)
    IN  IF target < t THEN target + DaySeconds ELSE target

\* calculateTargetTime(): arrivalTime is the form state, t is new Date()
calculateTargetTime(arrivalTime, t) ==
    LET hours   == Hours24(ParseDigits(arrivalTime.hh), arrivalTime.ampm)
        minutes == ParseOrZero(arrivalTime.mm)
        seconds == ParseOrZero(arrivalTime.ss)
        target  == SetHours(t, hours, minutes, seconds)
    IN  IF target <= t THEN target + DaySeconds ELSE target

\* mutant of RefreshInterval: strict comparisons at the thresholds
RefreshIntervalStrict(remaining) ==
    IF remaining < LimitFinal THEN NextFinal
    ELSE IF remaining < LimitClose THEN NextClose
    ELSE IF remaining < LimitNear THEN NextNear
    ELSE NextFar

\* mutant of RefreshInterval: the cascade upside down, short intervals far
\* from the target and long ones near it
RefreshIntervalReversed(remaining) ==
    IF remaining <= LimitFinal THEN NextFar
    ELSE IF remaining <= LimitClose THEN NextNear
    ELSE IF remaining <= LimitNear THEN NextClose
    ELSE NextFinal

\* the interval cascade of refresh
RefreshInterval(remaining) ==
    IF remaining <= LimitFinal THEN NextFinal
    ELSE IF remaining <= LimitClose THEN NextClose
    ELSE IF remaining <= LimitNear THEN NextNear
    ELSE NextFar

RECURSIVE Gcd(_, _)
Gcd(a, b) == IF b = 0 THEN a ELSE Gcd(b, a % b)

\* the fraction a / b (b > 0, a >= 0) in lowest terms
Fraction(a, b) == LET g == Gcd(a, b) IN [n |-> a \div g, d |-> b \div g]

\* dist / (remaining / 3600), for remaining > 0
SpeedOf(dist, remaining) == Fraction(dist * HourSeconds, remaining)
ZeroSpeed == [n |-> 0, d |-> 1]

\* The routing provider: road distance (km) between two coordinates, and the
\* path as getRouteData stores it.
RouteKm(start, end) == 20 * Abs(end - start)
RoutePath(start, end) == <<start, end>>

RemoveAt(s, k) == SubSeq(s, 1, k - 1) \o SubSeq(s, k + 1, Len(s))

----------------------------------------------------------------------------
(* The form states a user may submit; hh is never empty when the START
   button is enabled. *)
Requests ==
    { [hh |-> <<1, 1>>, mm |-> <<5, 2>>, ss |-> <<>>,     ampm |-> "PM"],   \* 23:52:00
      [hh |-> <<1, 1>>, mm |-> <<5, 5>>, ss |-> <<0, 1>>, ampm |-> "PM"] }  \* 23:55:01

\* history records of the handler that ran last
Act(name) == [name |-> name, trip |-> 0, dist |-> 0, rem |-> 0]
ActOn(name, trip, dist, rem) == [name |-> name, trip |-> trip, dist |-> dist, rem |-> rem]

NoRequest == [hh |-> <<>>, mm |-> <<>>, ss |-> <<>>, ampm |-> "PM"]
HsIdle == [pc |-> "idle", req |-> NoRequest, dest |-> NoCoords, target |-> 0, pos |-> DefaultPos]

\* input and output of the function under test; unused by Spec
NoProbe == [fn |-> "none", h |-> 0, m |-> 0, s |-> 0, ampm |-> "PM", t |-> 0, d |-> 0, r |-> 0]
NoResult == [done |-> FALSE, target |-> 0, next |-> 0, speed |-> ZeroSpeed]

InitEngine ==
    /\ variant \in Variants
    /\ now = StartClock
    /\ isActive = FALSE
    /\ isLoading = FALSE
    /\ error = "null"
    /\ destCoords = NoCoords
    /\ currentPos = DefaultPos
    /\ routePolyline = <<>>
    /\ distance = 0
    /\ requiredSpeed = ZeroSpeed
    /\ timeLeft = 0
    /\ nextRefresh = 0
    /\ refreshTimer = NoTimer
    /\ countdownTimer = NoTimer
    /\ intervals = {}
    /\ timeouts = {}
    /\ hs = HsIdle
    /\ posReq = <<>>
    /\ routeReq = <<>>
    /\ trips = 0
    /\ lastAct = Act("init")
    /\ pub = {}
    /\ afterStop = FALSE
    /\ expired = [t \in 1..(MaxTrips + 1) |-> 0]

Init ==
    /\ InitEngine
    /\ probe = NoProbe
    /\ result = NoResult

----------------------------------------------------------------------------
(* Timers *)

\* mutant of clearTimeout: the handle is not cancelled
clearTimeoutKeeps(table, handle) == table

\* clearTimeout(handle) / clearInterval(handle) on the host's timer table
clearTimeout(table, handle) == {t \in table : t.id # handle}
clearInterval(table, handle) == {t \in table : t.id # handle}

\* mutant of CountdownDiff: the clamp is missing
CountdownDiffUnclamped(arrivalTarget) == arrivalTarget - now

\* mutant of CountdownDiff: the previous value counted down by one tick
CountdownDiffDecrement(arrivalTarget) == Max0(timeLeft - TickSeconds)

\* the countdown's remaining time: Math.max(0, (arrivalTarget - now) / 1000)
CountdownDiff(arrivalTarget) == Max0(arrivalTarget - now)

\* mutant of Expires: a strict comparison, which the clamped diff never meets
ExpiresStrict(diff) == diff < 0

\* the tick's test for completion: diff <= 0
Expires(diff) == diff <= 0

\* history: the instant at which a refresh cycle started, recorded in its
\* requests under the specification that compares cycles (SpecOrder)
CycleStamp == IF probe.fn = "order" THEN now ELSE 0

\* refresh(): one getCurrentPosition call, then the next timeout is armed
\* at once from the remaining time; table is the pending timeouts without
\* the one that is firing.
refresh(id, targetCoords, arrivalTarget, table) ==
    LET remaining == arrivalTarget - now
        next == RefreshInterval(remaining)
    IN  /\ posReq' = Append(posReq, [trip |-> id, at |-> CycleStamp, dest |-> targetCoords,
                                      target |-> arrivalTarget])
        /\ nextRefresh' = next
        /\ timeouts' = table \cup {[id |-> id, dest |-> targetCoords,
                                    target |-> arrivalTarget, due |-> now + next]}
        /\ refreshTimer' = id

\* startTracking(targetCoords, arrivalTarget)
startTracking(targetCoords, arrivalTarget) ==
    LET id == trips + 1
    IN  /\ trips' = id
        /\ intervals' = intervals \cup {[id |-> id, target |-> arrivalTarget, due |-> now + TickSeconds]}
        /\ countdownTimer' = id
        /\ refresh(id, targetCoords, arrivalTarget, timeouts)

----------------------------------------------------------------------------
(* getRouteData(start, end); ok says whether the routing provider answered
   with a route *)

\* the value getRouteData returns
RouteReturn(ok, start, end) == IF ok THEN RouteKm(start, end) ELSE 0

\* the state getRouteData sets
getRouteData(ok, start, end) ==
    IF ok
    THEN /\ distance' = RouteKm(start, end)
         /\ routePolyline' = RoutePath(start, end)
    ELSE UNCHANGED <<distance, routePolyline>>

RoutePub(ok) == IF ok THEN {"distance", "routePolyline"} ELSE {}

----------------------------------------------------------------------------
(* handleStart *)

\* mutant of StartEnabled: START can be pressed at any time
StartEnabledAlways == TRUE

\* the START TRIP button is rendered in the setup view and disabled while loading
StartEnabled == ~isActive /\ ~isLoading

\* does handleStart go on to startTracking with this route result?
StartsTrip(dist) == variant = "hist" \/ dist # 0

\* the initial speed computation of handleStart: the new requiredSpeed
StartSpeed(dist, diff) ==
    IF variant = "hist" /\ diff > 0 /\ dist > 0 THEN SpeedOf(dist, diff) ELSE requiredSpeed

StartSpeedPub(dist, diff) ==
    IF variant = "hist" /\ diff > 0 /\ dist > 0 THEN {"requiredSpeed"} ELSE {}

\* The click, up to the first await.  The form is the input: req is
\* arrivalTime and coords is destCoords as the setup view's handlers left
\* them before the click (onChange sets destCoords to null; a suggestion,
\* a map point or a history item sets coordinates).
HandleStart(req, coords) ==
    /\ StartEnabled
    /\ hs.pc = "idle"
    /\ trips < MaxTrips
    /\ destCoords' = coords
    /\ error' = "null"
    /\ isLoading' = TRUE
    /\ hs' = IF coords # NoCoords
             THEN [pc |-> "route", req |-> req, dest |-> coords,
                   target |-> calculateTargetTime(req, now), pos |-> currentPos]
             ELSE [pc |-> "geocode", req |-> req, dest |-> NoCoords,
                   target |-> 0, pos |-> currentPos]
    /\ lastAct' = Act("HandleStart")
    /\ pub' = {}
    /\ afterStop' = FALSE
    /\ UNCHANGED <<variant, now, isActive, currentPos, routePolyline,
                   distance, requiredSpeed, timeLeft, nextRefresh, refreshTimer,
                   countdownTimer, intervals, timeouts, posReq, routeReq, trips,
                   expired, probe, result>>

\* mutant of GeocodeEmptyOutcome: the error is reported but the finally
\* block is missing, so the loading flag stays set
GeocodeEmptyKeepsLoading ==
    /\ error' = "Address not found."
    /\ isLoading' = TRUE
    /\ hs' = HsIdle
    /\ UNCHANGED <<isActive, destCoords, intervals, timeouts, refreshTimer, countdownTimer,
                   posReq, nextRefresh, trips, timeLeft, requiredSpeed, distance, routePolyline>>

\* what the geocoding search leaves handleStart with when no candidate comes back
GeocodeEmptyOutcome ==
    /\ error' = "Address not found."
    /\ isLoading' = FALSE
    /\ hs' = HsIdle
    /\ UNCHANGED <<isActive, destCoords, intervals, timeouts, refreshTimer, countdownTimer,
                   posReq, nextRefresh, trips, timeLeft, requiredSpeed, distance, routePolyline>>

\* the geocoding search answers with a first candidate d
GeocodeFound(d) ==
    /\ hs.pc = "geocode"
    /\ destCoords' = d
    /\ hs' = [hs EXCEPT !.pc = "route", !.dest = d,
                        !.target = calculateTargetTime(hs.req, now)]
    /\ lastAct' = Act("GeocodeFound")
    /\ pub' = {}
    /\ UNCHANGED <<variant, now, isActive, isLoading, error, currentPos, routePolyline,
                   distance, requiredSpeed, timeLeft, nextRefresh, refreshTimer,
                   countdownTimer, intervals, timeouts, posReq, routeReq, trips,
                   afterStop, expired, probe, result>>

\* the geocoding search answers with no candidate
GeocodeEmpty ==
    /\ hs.pc = "geocode"
    /\ GeocodeEmptyOutcome
    /\ lastAct' = Act("GeocodeEmpty")
    /\ pub' = {}
    /\ UNCHANGED <<variant, now, currentPos, routeReq, afterStop, expired, probe, result>>

\* the geocoding fetch throws
GeocodeFail ==
    /\ hs.pc = "geocode"
    /\ error' = "Failed to fetch"
    /\ isLoading' = FALSE
    /\ hs' = HsIdle
    /\ lastAct' = Act("GeocodeFail")
    /\ pub' = {}
    /\ UNCHANGED <<variant, now, isActive, destCoords, currentPos, routePolyline,
                   distance, requiredSpeed, timeLeft, nextRefresh, refreshTimer,
                   countdownTimer, intervals, timeouts, posReq, routeReq, trips,
                   afterStop, expired, probe, result>>

\* the initial getRouteData returns: the rest of handleStart
StartRoute(ok) ==
    /\ hs.pc = "route"
    /\ Len(posReq) + Len(routeReq) < MaxInFlight
    /\ LET dist == RouteReturn(ok, hs.pos, hs.dest)
           diff == Max0(hs.target - now)
       IN  /\ getRouteData(ok, hs.pos, hs.dest)
           /\ IF StartsTrip(dist)
              THEN /\ timeLeft' = IF variant = "hist" THEN diff ELSE timeLeft
                   /\ requiredSpeed' = StartSpeed(dist, diff)
                   /\ isActive' = TRUE
                   /\ startTracking(hs.dest, hs.target)
                   /\ error' = error
                   /\ expired' = [t \in DOMAIN expired |->
                                   IF \E i \in intervals : i.id = t THEN expired[t] ELSE 0]
                   /\ lastAct' = ActOn(IF dist = 0 THEN "StartNoRoute" ELSE "StartRoute",
                                        trips + 1, dist, hs.target - now)
                   /\ pub' = RoutePub(ok) \cup StartSpeedPub(dist, diff) \cup {"nextRefresh"}
                             \cup (IF variant = "hist" THEN {"timeLeft"} ELSE {})
              ELSE /\ error' = "Could not calculate route."
                   /\ lastAct' = ActOn("StartRejected", 0, dist, hs.target - now)
                   /\ pub' = RoutePub(ok)
                   /\ UNCHANGED <<timeLeft, requiredSpeed, isActive, trips, intervals,
                                  countdownTimer, posReq, nextRefresh, timeouts, refreshTimer,
                                  expired>>
    /\ isLoading' = FALSE
    /\ hs' = HsIdle
    /\ UNCHANGED <<variant, now, destCoords, currentPos, routeReq, afterStop, probe, result>>

----------------------------------------------------------------------------
(* handleStop, the countdown tick and the refresh cycle *)

Min(a, b) == IF a < b THEN a ELSE b

\* mutant of StopEffect: the countdown interval is left running
StopEffectKeepsInterval(active, liveTimeouts, liveIntervals) ==
    [isActive |-> FALSE,
     timeouts |-> clearTimeout(liveTimeouts, refreshTimer),
     intervals |-> liveIntervals]

\* what handleStop() makes of the active flag and the host's timers; the two
\* refs keep their handles
StopEffect(active, liveTimeouts, liveIntervals) ==
    [isActive |-> FALSE,
     timeouts |-> clearTimeout(liveTimeouts, refreshTimer),
     intervals |-> clearInterval(liveIntervals, countdownTimer)]

\* handleStop(): table arguments are the host's timers as the caller left them
handleStop(liveIntervals) ==
    LET stopped == StopEffect(isActive, timeouts, liveIntervals)
    IN  /\ isActive' = stopped.isActive
        /\ timeouts' = stopped.timeouts
        /\ intervals' = stopped.intervals

\* mutant of UserStop: stopping also clears the speed and the distance
UserStopClearsReadings ==
    /\ isActive
    /\ handleStop(intervals)
    /\ requiredSpeed' = ZeroSpeed
    /\ distance' = 0
    /\ lastAct' = Act("UserStop")
    /\ pub' = {}
    /\ afterStop' = TRUE
    /\ UNCHANGED <<variant, now, isLoading, error, destCoords, currentPos, routePolyline,
                   timeLeft, nextRefresh, refreshTimer,
                   countdownTimer, hs, posReq, routeReq, trips, expired, probe, result>>

\* the STOP TRACKING button, rendered in the tracking view
UserStop ==
    /\ isActive
    /\ handleStop(intervals)
    /\ lastAct' = Act("UserStop")
    /\ pub' = {}
    /\ afterStop' = TRUE
    /\ UNCHANGED <<variant, now, isLoading, error, destCoords, currentPos, routePolyline,
                   distance, requiredSpeed, timeLeft, nextRefresh, refreshTimer,
                   countdownTimer, hs, posReq, routeReq, trips, expired, probe, result>>

\* the setInterval callback of startTracking
Tick(i) ==
    /\ i \in intervals
    /\ now >= i.due
    /\ LET diff == CountdownDiff(i.target)
           rearmed == (intervals \ {i}) \cup {[i EXCEPT !.due = now + TickSeconds]}
       IN  /\ timeLeft' = diff
           /\ IF Expires(diff)
              THEN /\ handleStop(rearmed)
                   /\ afterStop' = TRUE
                   /\ expired' = [expired EXCEPT ![i.id] = Min(@ + 1, 2)]
                   /\ lastAct' = ActOn("TickExpire", i.id, 0, i.target - now)
              ELSE /\ intervals' = rearmed
                   /\ lastAct' = ActOn("Tick", i.id, 0, i.target - now)
                   /\ UNCHANGED <<isActive, timeouts, afterStop, expired>>
    /\ pub' = {"timeLeft"}
    /\ UNCHANGED <<variant, now, isLoading, error, destCoords, currentPos, routePolyline,
                   distance, requiredSpeed, nextRefresh, refreshTimer, countdownTimer,
                   hs, posReq, routeReq, trips, probe, result>>

\* the setTimeout callback: refresh()
RefreshFire(t) ==
    /\ t \in timeouts
    /\ now >= t.due
    /\ Len(posReq) + Len(routeReq) < MaxInFlight
    /\ refresh(t.id, t.dest, t.target, timeouts \ {t})
    /\ lastAct' = Act("RefreshFire")
    /\ pub' = {"nextRefresh"}
    /\ UNCHANGED <<variant, now, isActive, isLoading, error, destCoords, currentPos,
                   routePolyline, distance, requiredSpeed, timeLeft, countdownTimer,
                   intervals, hs, routeReq, trips, afterStop, expired, probe, result>>

\* mutant of PositionOk: the route is asked from the position of the last
\* render (currentPos) instead of the one the fetch returned
PositionOkStale(k, p) ==
    /\ k \in 1..Len(posReq)
    /\ currentPos' = p
    /\ routeReq' = Append(routeReq, [trip |-> posReq[k].trip, at |-> posReq[k].at, start |-> currentPos,
                                     dest |-> posReq[k].dest, target |-> posReq[k].target])
    /\ posReq' = RemoveAt(posReq, k)
    /\ lastAct' = ActOn("PositionOk", posReq[k].trip, 0, posReq[k].target - now)
    /\ pub' = {"currentPos"}
    /\ UNCHANGED <<variant, now, isActive, isLoading, error, destCoords, routePolyline,
                   distance, requiredSpeed, timeLeft, nextRefresh, refreshTimer,
                   countdownTimer, intervals, timeouts, hs, trips, afterStop, expired,
                   probe, result>>

\* the success callback of getCurrentPosition in refresh, up to its await
PositionOk(k, p) ==
    /\ k \in 1..Len(posReq)
    /\ currentPos' = p
    /\ routeReq' = Append(routeReq, [trip |-> posReq[k].trip, at |-> posReq[k].at, start |-> p,
                                     dest |-> posReq[k].dest, target |-> posReq[k].target])
    /\ posReq' = RemoveAt(posReq, k)
    /\ lastAct' = ActOn("PositionOk", posReq[k].trip, 0, posReq[k].target - now)
    /\ pub' = {"currentPos"}
    /\ UNCHANGED <<variant, now, isActive, isLoading, error, destCoords, routePolyline,
                   distance, requiredSpeed, timeLeft, nextRefresh, refreshTimer,
                   countdownTimer, intervals, timeouts, hs, trips, afterStop, expired,
                   probe, result>>

\* mutant of PositionFail: the failed fetch is asked again at once
PositionFailRetries(k) ==
    /\ k \in 1..Len(posReq)
    /\ posReq' = Append(RemoveAt(posReq, k), posReq[k])
    /\ lastAct' = Act("PositionFail")
    /\ pub' = {}
    /\ UNCHANGED <<variant, now, isActive, isLoading, error, destCoords, currentPos,
                   routePolyline, distance, requiredSpeed, timeLeft, nextRefresh,
                   refreshTimer, countdownTimer, intervals, timeouts, hs, routeReq, trips,
                   afterStop, expired, probe, result>>

\* getCurrentPosition fails: refresh passes no error callback
PositionFail(k) ==
    /\ k \in 1..Len(posReq)
    /\ posReq' = RemoveAt(posReq, k)
    /\ lastAct' = Act("PositionFail")
    /\ pub' = {}
    /\ UNCHANGED <<variant, now, isActive, isLoading, error, destCoords, currentPos,
                   routePolyline, distance, requiredSpeed, timeLeft, nextRefresh,
                   refreshTimer, countdownTimer, intervals, timeouts, hs, routeReq, trips,
                   afterStop, expired, probe, result>>

\* does the cycle call setRequiredSpeed?
CycleSetsSpeed(dist, remaining) == variant = "hist" \/ remaining > 0

\* the value the cycle passes to setRequiredSpeed
CycleSpeed(dist, remaining) ==
    IF variant = "hist"
    THEN IF remaining > 0 /\ dist > 0 THEN SpeedOf(dist, remaining) ELSE ZeroSpeed
    ELSE SpeedOf(dist, remaining)

\* the rest of the position callback, after getRouteData returned
RouteDone(k, ok) ==
    /\ k \in 1..Len(routeReq)
    /\ LET r == routeReq[k]
           dist == RouteReturn(ok, r.start, r.dest)
           remaining == r.target - now
       IN  /\ getRouteData(ok, r.start, r.dest)
           /\ requiredSpeed' = IF CycleSetsSpeed(dist, remaining)
                               THEN CycleSpeed(dist, remaining)
                               ELSE requiredSpeed
           /\ pub' = RoutePub(ok) \cup
                     (IF CycleSetsSpeed(dist, remaining) THEN {"requiredSpeed"} ELSE {})
    /\ routeReq' = RemoveAt(routeReq, k)
    /\ lastAct' = ActOn(IF ok THEN "RouteOk" ELSE "RouteFail", routeReq[k].trip,
                        RouteReturn(ok, routeReq[k].start, routeReq[k].dest),
                        routeReq[k].target - now)
    /\ UNCHANGED <<variant, now, isActive, isLoading, error, destCoords, currentPos,
                   timeLeft, nextRefresh, refreshTimer, countdownTimer, intervals,
                   timeouts, hs, posReq, trips, afterStop, expired, probe, result>>

\* time passes
Advance ==
    /\ now + ClockStep <= StartClock + MaxSteps * ClockStep
    /\ now' = now + ClockStep
    /\ UNCHANGED <<lastAct, pub, variant, isActive, isLoading, error, destCoords, currentPos,
                   routePolyline, distance, requiredSpeed, timeLeft, nextRefresh,
                   refreshTimer, countdownTimer, intervals, timeouts, hs, posReq,
                   routeReq, trips, afterStop, expired, probe, result>>

Next ==
    \/ \E req \in Requests, coords \in Dests \cup {NoCoords} : HandleStart(req, coords)
    \/ \E d \in Dests : GeocodeFound(d)
    \/ GeocodeEmpty
    \/ GeocodeFail
    \/ \E ok \in BOOLEAN : StartRoute(ok)
    \/ UserStop
    \/ \E i \in intervals : Tick(i)
    \/ \E t \in timeouts : RefreshFire(t)
    \/ \E k \in 1..MaxInFlight, p \in Positions : PositionOk(k, p)
    \/ \E k \in 1..MaxInFlight : PositionFail(k)
    \/ \E k \in 1..MaxInFlight, ok \in BOOLEAN : RouteDone(k, ok)
    \/ Advance

Spec == Init /\ [][Next]_vars

\* the last instant the bounded clock reaches
Horizon == StartClock + MaxSteps * ClockStep

\* the engine's steps in behaviours of at most LiveTrips trips
NextLive ==
    \/ \E req \in Requests, coords \in Dests \cup {NoCoords} :
          HandleStart(req, coords) /\ trips < LiveTrips
    \/ \E d \in Dests : GeocodeFound(d)
    \/ GeocodeEmpty
    \/ GeocodeFail
    \/ \E ok \in BOOLEAN : StartRoute(ok)
    \/ UserStop
    \/ \E i \in intervals : Tick(i)
    \/ \E t \in timeouts : RefreshFire(t)
    \/ \E k \in 1..MaxInFlight, p \in Positions : PositionOk(k, p)
    \/ \E k \in 1..MaxInFlight : PositionFail(k)
    \/ \E k \in 1..MaxInFlight, ok \in BOOLEAN : RouteDone(k, ok)
    \/ Advance

\* The engine in behaviours of at most LiveTrips trips, for the properties of
\* single steps and of the cycles of one trip
SpecTrip == Init /\ [][NextLive]_vars

\* The engine under the host's scheduling: the clock advances and a due
\* setInterval callback is run.  Nothing is assumed of the position and
\* route fetches, which may stay unanswered for ever.
SpecLive ==
    /\ Init
    /\ [][NextLive]_vars
    /\ WF_vars(Advance)
    /\ WF_vars(\E i \in intervals : Tick(i))

\* The engine with the start of every refresh cycle recorded in its requests
OrderInit == InitEngine /\ probe = [NoProbe EXCEPT !.fn = "order"] /\ result = NoResult

SpecOrder == OrderInit /\ [][NextLive]_vars

\* is the component mounted?  (history, kept in probe)
Mounted == probe.fn # "unmounted"

\* the cleanup of the mount effect, run when the component unmounts:
\* clearInterval and clearTimeout of refreshTimer.current, clearInterval of
\* countdownTimer.current
Unmount ==
    /\ Mounted
    /\ timeouts' = clearTimeout(clearInterval(timeouts, refreshTimer), refreshTimer)
    /\ intervals' = clearInterval(intervals, countdownTimer)
    /\ probe' = [probe EXCEPT !.fn = "unmounted"]
    /\ lastAct' = Act("Unmount")
    /\ pub' = {}
    /\ UNCHANGED <<variant, now, isActive, isLoading, error, destCoords, currentPos,
                   routePolyline, distance, requiredSpeed, timeLeft, nextRefresh,
                   refreshTimer, countdownTimer, hs, posReq, routeReq, trips,
                   afterStop, expired, result>>

\* The engine in a component that may unmount: the buttons exist while it
\* is mounted; timers that are still armed and requests that are still in
\* flight run their callbacks whether it is mounted or not.
NextMount ==
    \/ \E req \in Requests, coords \in Dests \cup {NoCoords} :
          Mounted /\ trips < LiveTrips /\ HandleStart(req, coords)
    \/ \E d \in Dests : GeocodeFound(d)
    \/ GeocodeEmpty
    \/ GeocodeFail
    \/ \E ok \in BOOLEAN : StartRoute(ok)
    \/ Mounted /\ UserStop
    \/ \E i \in intervals : Tick(i)
    \/ \E t \in timeouts : RefreshFire(t)
    \/ \E k \in 1..MaxInFlight, p \in Positions : PositionOk(k, p)
    \/ \E k \in 1..MaxInFlight : PositionFail(k)
    \/ \E k \in 1..MaxInFlight, ok \in BOOLEAN : RouteDone(k, ok)
    \/ Advance
    \/ Unmount

SpecMount == Init /\ [][NextMount]_vars

----------------------------------------------------------------------------
(* Claims about the trip engine *)

EngineOutputs == {"currentPos", "distance", "routePolyline", "requiredSpeed"}
CycleCallbacks == {"PositionOk", "RouteOk", "RouteFail"}

\* C1: after handleStop has run (and before the next handleStart), no handler
\* publishes a position, a distance, a route path or a required speed.
C1_NoPublishAfterStop == afterStop => pub \cap EngineOutputs = {}

\* C2: after handleStop has run and before the next start, no countdown
\* interval and no refresh timeout is pending, and the handler that ran last
\* is neither a countdown tick that goes on ticking nor a refresh cycle
\* starting; callbacks of in-flight cycles arm nothing.
C2_NoTimerAfterStop ==
    afterStop => /\ intervals = {}
                 /\ timeouts = {}
                 /\ lastAct.name \notin {"Tick", "RefreshFire"}

\* C2 witness: a callback of an in-flight cycle has run after the stop
C2_Witness == afterStop /\ lastAct.name \in CycleCallbacks /\ trips > 0

\* C3: the remaining time the countdown publishes is never negative.
C3_TimeLeftNonNegative == timeLeft >= 0

\* C3 witness: a tick fired after the target instant had passed
C3_Witness == lastAct.name = "TickExpire" /\ lastAct.rem < 0 /\ timeLeft = 0

SpeedIs(speed, d, r) ==
    IF d = 0 \/ r <= 0
    THEN speed.n = 0
    ELSE speed.n > 0 /\ speed.d > 0 /\ speed.n * r = d * HourSeconds * speed.d

\* C6: every refresh cycle that finishes publishes a required speed, which
\* is 0 iff d = 0 or r <= 0 and d * 3600 / r otherwise; the speed shown is
\* never negative.
C6_SpeedPublished ==
    /\ requiredSpeed.n >= 0 /\ requiredSpeed.d > 0
    /\ lastAct.name \in {"RouteOk", "RouteFail"}
          => /\ "requiredSpeed" \in pub
             /\ SpeedIs(requiredSpeed, lastAct.dist, lastAct.rem)

\* C8: when the initial route resolution returns 0, the trip starts: the
\* session is active, both timers are armed, distance and required speed
\* are 0, and a first cycle is under way.
C8_StartsWithoutRoute ==
    (lastAct.name \in {"StartNoRoute", "StartRejected"} /\ lastAct.dist = 0)
       => /\ isActive
          /\ intervals # {} /\ timeouts # {}
          /\ distance = 0 /\ requiredSpeed.n = 0
          /\ Len(posReq) > 0

\* C9: a refresh cycle whose route resolution fails changes neither the
\* required speed nor the distance.
C9_RouteFailureHolds ==
    [][lastAct'.name = "RouteFail" => (requiredSpeed' = requiredSpeed /\ distance' = distance)]_vars

\* C10: when geocoding returns no candidate, the trip does not start: the
\* session is inactive, no timer is armed, an error is shown and the
\* loading flag is cleared.
C10_NotFoundDoesNotStart ==
    lastAct.name = "GeocodeEmpty"
       => /\ ~isActive
          /\ intervals = {} /\ timeouts = {}
          /\ error = "Address not found."
          /\ ~isLoading

\* C10 witness: the search of a free-text destination came back empty
C10_Witness == lastAct.name = "GeocodeEmpty" /\ destCoords = NoCoords /\ error # "null"

\* a step of the handler named n (the clock's step keeps lastAct and moves now)
StepOf(n) == now' = now /\ lastAct'.name = n

\* the handlers that call refresh(): the start of a trip and the fired timeout
CycleStarts == {"StartRoute", "StartNoRoute", "RefreshFire"}

\* C11: a refresh cycle whose position fetch fails asks for no route, calls
\* no setter (position, distance, path and speed keep their values), is not
\* retried and arms nothing; a position fetch is issued only by refresh(),
\* that is when a trip starts or when the scheduled timeout fires.
C11_FailedFetchSkipsCycle ==
    [][ /\ StepOf("PositionFail") =>
            /\ routeReq' = routeReq
            /\ Len(posReq') = Len(posReq) - 1
            /\ pub' = {}
            /\ <<currentPos, distance, routePolyline, requiredSpeed>>' =
               <<currentPos, distance, routePolyline, requiredSpeed>>
            /\ timeouts' = timeouts /\ nextRefresh' = nextRefresh
        /\ Len(posReq') > Len(posReq) => \E n \in CycleStarts : StepOf(n) ]_vars

\* a position fetch of a running trip has failed
C11_Witness == lastAct.name = "PositionFail" /\ isActive /\ timeouts # {} /\ pub = {}

\* C12: handleStop is idempotent and safe in every state: from any reachable
\* state, active or not, one call leaves the session inactive with no
\* countdown interval and no refresh timeout, and a second call changes
\* nothing more; a stop by the user does not count as an expiry of the trip.
C12_StopIdempotent ==
    LET once == StopEffect(isActive, timeouts, intervals)
        twice == StopEffect(once.isActive, once.timeouts, once.intervals)
    IN  /\ ~once.isActive /\ once.timeouts = {} /\ once.intervals = {}
        /\ twice = once
        /\ lastAct.name = "UserStop" =>
               /\ ~isActive /\ timeouts = {} /\ intervals = {}
               /\ expired[countdownTimer] = 0

\* the user has stopped a running trip, whose timers were pending
C12_Witness ==
    /\ lastAct.name = "UserStop" /\ ~isActive /\ trips > 0
    /\ refreshTimer # NoTimer /\ countdownTimer # NoTimer
    /\ timeouts = {} /\ intervals = {}

\* C13: natural completion cancels what a user stop cancels: after the tick
\* that observes remaining 0 the session is inactive, no countdown interval
\* and no refresh timeout is pending, and no refresh cycle starts afterwards.
C13_CompletionCancels ==
    /\ lastAct.name = "TickExpire" =>
           /\ ~isActive /\ intervals = {} /\ timeouts = {} /\ timeLeft = 0 /\ afterStop
    /\ (afterStop /\ expired[countdownTimer] > 0) =>
           /\ timeouts = {} /\ intervals = {}
           /\ lastAct.name # "RefreshFire"

\* a trip has run out while its refresh timeout was armed, and a callback of
\* an earlier cycle has come back since
C13_Witness ==
    /\ afterStop /\ expired[countdownTimer] = 1 /\ refreshTimer = countdownTimer
    /\ lastAct.name \in CycleCallbacks /\ ~isActive

\* C14: with the countdown tick firing fairly and the clock advancing, an
\* active trip whose target and next tick lie within the clock's horizon
\* becomes inactive, whether or not any position or route fetch ever comes
\* back.
C14_TripEnds ==
    (isActive /\ \E i \in intervals : i.target <= Horizon /\ i.due <= Horizon) ~> ~isActive

\* a trip has run out while a position fetch of it is still unanswered
C14_Witness ==
    /\ lastAct.name = "TickExpire" /\ ~isActive
    /\ \E k \in 1..Len(posReq) : posReq[k].trip = lastAct.trip

\* does every field of the arrival form parse to a number?
Parseable(arrivalTime) ==
    ParseOk(arrivalTime.hh) /\ ParseOk(arrivalTime.mm) /\ ParseOk(arrivalTime.ss)

\* C15: when the hour, the minute or the second of the arrival form does not
\* parse to a number, the handleStart that was given it ends with an error
\* reported, the session inactive and no timer armed.
C15_UnparseableDoesNotStart ==
    [][ (hs.pc = "route" /\ hs'.pc = "idle" /\ ~Parseable(hs.req)) =>
            /\ ~isActive' /\ error' # "null"
            /\ intervals' = {} /\ timeouts' = {} ]_vars

\* the number of refresh cycles of trip t that await their position or their route
InFlight(t) ==
    Cardinality({k \in 1..Len(posReq) : posReq[k].trip = t}) +
    Cardinality({k \in 1..Len(routeReq) : routeReq[k].trip = t})

\* C17: at most one refresh cycle of a trip is in flight at any time: no cycle
\* starts while the position fetch or the route fetch of an earlier cycle of
\* the same trip is outstanding.
C17_OneCycleInFlight == \A t \in 1..trips : InFlight(t) <= 1

\* C18: when a start is issued only while no trip is active and no start is
\* in progress (the START button's guard), every reachable state has at most
\* one countdown interval and at most one pending refresh timeout, and each
\* is the one its ref names.
C18_OneTimerEach ==
    /\ Cardinality(intervals) <= 1
    /\ Cardinality(timeouts) <= 1
    /\ \A i \in intervals : i.id = countdownTimer
    /\ \A t \in timeouts : t.id = refreshTimer

\* a second trip runs after the first was stopped, and its cycle has been rearmed
C18_Witness ==
    /\ trips = 2 /\ isActive /\ lastAct.name = "RefreshFire"
    /\ Cardinality(intervals) = 1 /\ Cardinality(timeouts) = 1

\* the handlers in which handleStart leaves a trip started
TripStarts == {"StartRoute", "StartNoRoute"}

\* C19: within a refresh cycle the route is asked only by the callback of
\* that cycle's successful position fetch, from the position the fetch
\* returned; a cycle publishes a speed only in the step in which its own
\* route request returns; a cycle whose position fetch failed asks for no
\* route and publishes no speed.
C19_CycleOrder ==
    [][ /\ Len(routeReq') > Len(routeReq) =>
            /\ StepOf("PositionOk")
            /\ Len(posReq') = Len(posReq) - 1
            /\ routeReq'[Len(routeReq')].start = currentPos'
            /\ routeReq'[Len(routeReq')].trip = lastAct'.trip
            /\ \E k \in 1..Len(posReq) : posReq[k].trip = lastAct'.trip
        /\ (now' = now /\ "requiredSpeed" \in pub' /\ lastAct'.name \notin TripStarts) =>
            /\ Len(routeReq') = Len(routeReq) - 1
            /\ posReq' = posReq
            /\ \E k \in 1..Len(routeReq) : routeReq[k].trip = lastAct'.trip
        /\ StepOf("PositionFail") =>
            /\ routeReq' = routeReq
            /\ "requiredSpeed" \notin pub' /\ requiredSpeed' = requiredSpeed ]_vars

\* a cycle has fetched a position, then its route, and published a speed from it
C19_Witness ==
    /\ lastAct.name = "RouteOk" /\ "requiredSpeed" \in pub
    /\ currentPos \in Positions /\ distance = RouteKm(currentPos, destCoords)
    /\ requiredSpeed.n > 0

\* C20: the delay before the next refresh cycle is chosen at the end of the
\* current cycle: a refresh timeout is armed, and its interval published,
\* only by a step in which a fetch of a cycle has come back, never by the
\* step that starts a cycle's position fetch.
C20_DelayChosenAtCycleEnd ==
    [][ (timeouts' \ timeouts # {} \/ (now' = now /\ "nextRefresh" \in pub')) =>
            /\ Len(posReq') + Len(routeReq') < Len(posReq) + Len(routeReq)
            /\ Len(posReq') <= Len(posReq) ]_vars

\* C21: during one trip the published next-refresh intervals never grow:
\* the timeout that fires belongs to the running trip, and the interval its
\* refresh publishes is a value of the cascade no longer than the one
\* published before it.
C21_IntervalsTighten ==
    [][ StepOf("RefreshFire") =>
            /\ nextRefresh' <= nextRefresh
            /\ nextRefresh' \in {NextFar, NextNear, NextClose, NextFinal}
            /\ \A t \in timeouts' : t.id = refreshTimer /\ t.due = now + nextRefresh' ]_vars

\* a trip that began with the longest interval has been given a shorter one
C21_Witness ==
    /\ lastAct.name = "RefreshFire" /\ isActive
    /\ \E t \in timeouts : /\ RefreshInterval(t.target - StartClock) = NextFar
                            /\ t.target - now > 0
                            /\ nextRefresh < NextFar

\* the handlers that run between the completions of refresh cycles
BetweenCycles == {"Tick", "TickExpire", "RefreshFire", "UserStop", "PositionFail"}

\* C22: the required speed is changed only by the step in which a route
\* request of a refresh cycle returns, or by handleStart starting a trip; a
\* countdown tick, the firing and arming of the refresh timeout with the
\* interval it publishes, and handleStop (from the button or from the
\* expiring tick) leave the required speed and the distance as they were.
C22_SpeedFrame ==
    [][ /\ requiredSpeed' # requiredSpeed =>
            /\ now' = now
            /\ \/ lastAct'.name \in {"RouteOk", "RouteFail"} /\ Len(routeReq') < Len(routeReq)
               \/ lastAct'.name \in TripStarts /\ isActive' /\ ~isActive
        /\ (\E n \in BetweenCycles : StepOf(n)) =>
            requiredSpeed' = requiredSpeed /\ distance' = distance ]_vars

\* a trip showing a speed has been stopped and the speed is still shown
C22_Witness ==
    /\ lastAct.name \in {"UserStop", "TickExpire"} /\ ~isActive
    /\ requiredSpeed.n > 0 /\ distance > 0

\* C23: a countdown tick sets the remaining time to max(0, target - now)
\* from the clock, whatever the previous value was and however long ago
\* the previous tick ran.
C23_TickFromClock ==
    lastAct.name \in {"Tick", "TickExpire"} =>
        /\ "timeLeft" \in pub
        /\ timeLeft = Max0(lastAct.rem)

\* the first tick of a trip ran a whole clock step after its start: the
\* ticks of the seconds in between were skipped
C23_Witness ==
    /\ lastAct.name = "Tick" /\ timeLeft > 0
    /\ now = StartClock + ClockStep
    /\ \E i \in intervals : i.target - StartClock = timeLeft + ClockStep

\* C24: a distance published while a trip is active was computed for that
\* trip: when a route request has just returned, the distance it published
\* is the length of a route to the running trip's destination.
C24_OwnTripOnly ==
    (isActive /\ lastAct.name = "RouteOk") =>
        \E p \in Positions \cup {DefaultPos} : distance = RouteKm(p, destCoords)

\* C25: results are applied latest-wins: a cycle of a trip that has time left
\* publishes its position only if no cycle of the trip that started after it
\* has already published its own (and is now awaiting its route).
C25_LatestWins ==
    [][ (Len(routeReq') > Len(routeReq) /\ routeReq'[Len(routeReq')].target - now > 0) =>
            LET mine == routeReq'[Len(routeReq')]
            IN  \A j \in 1..Len(routeReq) :
                    routeReq[j].trip = mine.trip => routeReq[j].at <= mine.at ]_vars

\* C26: the active flag and the timers agree: while the component is mounted
\* the session is active exactly when a countdown interval is armed and
\* exactly when a refresh timeout is pending; once the component has
\* unmounted no interval and no timeout is armed.
C26_FlagAgreesWithTimers ==
    /\ Mounted =>
           /\ isActive <=> intervals # {}
           /\ isActive <=> timeouts # {}
    /\ ~Mounted => intervals = {} /\ timeouts = {}

----------------------------------------------------------------------------
(* The pure functions on their own: SpecFn draws an input and applies
   calculateTargetTime or the interval cascade of refresh to it. *)

\* the text of a number field as typed, and as the two-digit prefill writes it
Typed(n) == IF n < 10 THEN <<n>> ELSE <<n \div 10, n % 10>>
TwoDigits(n) == <<n \div 10, n % 10>>

\* the form state of a probe
FormOf(p) == [hh |-> Typed(p.h), mm |-> TwoDigits(p.m), ss |-> TwoDigits(p.s), ampm |-> p.ampm]

ProbeHours == 1..12
ProbeMinutes == {0, 5, 50, 59}
ProbeSeconds == {0, 59}
\* instants of day 1: 00:00:00, 00:05:00, 11:59:59, 12:00:00, 23:50:00, 23:59:59
ProbeInstants == {DaySeconds + x : x \in {0, 300, 43199, 43200, 85800, 86399}}
ProbeRemaining == (0 - 5)..305

TargetProbes ==
    { [fn |-> "target", h |-> h, m |-> m, s |-> sec, ampm |-> ap, t |-> t, d |-> 0, r |-> 0] :
        h \in ProbeHours, m \in ProbeMinutes, sec \in ProbeSeconds,
        ap \in {"AM", "PM"}, t \in ProbeInstants }

IntervalProbes ==
    { [fn |-> "interval", h |-> 0, m |-> 0, s |-> 0, ampm |-> "PM", t |-> 0, d |-> 0, r |-> r] :
        r \in ProbeRemaining }

FnInit ==
    /\ InitEngine
    /\ probe \in TargetProbes \cup IntervalProbes
    /\ result = NoResult

ApplyTarget ==
    /\ probe.fn = "target"
    /\ ~result.done
    /\ result' = [result EXCEPT !.done = TRUE,
                                !.target = calculateTargetTime(FormOf(probe), probe.t)]
    /\ UNCHANGED <<progVars, probe>>

ApplyInterval ==
    /\ probe.fn = "interval"
    /\ ~result.done
    /\ result' = [result EXCEPT !.done = TRUE, !.next = RefreshInterval(probe.r)]
    /\ UNCHANGED <<progVars, probe>>

FnNext == ApplyTarget \/ ApplyInterval

SpecFn == FnInit /\ [][FnNext]_vars

\* C5: the interval chosen from remaining time r is 1 s for r <= 60 (negative
\* r included), 3 s for 60 < r <= 120, 5 s for 120 < r <= 300, 30 s above.
C5_IntervalTable ==
    (result.done /\ probe.fn = "interval")
       => LET r == probe.r
          IN  /\ (r <= 60) => result.next = 1
              /\ (60 < r /\ r <= 120) => result.next = 3
              /\ (120 < r /\ r <= 300) => result.next = 5
              /\ (r > 300) => result.next = 30

\* C5 witness: the cascade was applied at a threshold
C5_Witness == result.done /\ probe.fn = "interval" /\ probe.r = 300 /\ result.next = 5

\* the requested time of day in seconds, as the claim reads the 12-hour clock
RequestedSeconds(p) ==
    LET hour == IF p.ampm = "AM" THEN (IF p.h = 12 THEN 0 ELSE p.h)
                ELSE (IF p.h < 12 THEN p.h + 12 ELSE p.h)
    IN  hour * 3600 + p.m * 60 + p.s

\* C7: the target is never in the past: the requested time of day taken on
\* the current date if that is after the current instant, else the same
\* time of day on the next day.
C7_TargetInFuture ==
    (result.done /\ probe.fn = "target")
       => LET today == (probe.t \div 86400) * 86400 + RequestedSeconds(probe)
          IN  /\ result.target > probe.t
              /\ result.target = IF today <= probe.t THEN today + 86400 ELSE today

\* C7 witness: at 23:50:00 a request of 12:05 AM gives 00:05:00 of the next date
C7_Witness ==
    /\ result.done /\ probe.fn = "target"
    /\ probe.t = 86400 + 85800
    /\ probe.h = 12 /\ probe.m = 5 /\ probe.s = 0 /\ probe.ampm = "AM"
    /\ result.target = 2 * 86400 + 300

\* C27: for a valid 12-hour request and any current instant the target lies
\* strictly after the instant and at most 24 hours (86400 s) after it.
C27_WithinOneDay ==
    (result.done /\ probe.fn = "target") =>
        /\ 0 < result.target - probe.t
        /\ result.target - probe.t <= DaySeconds

\* at 00:00:00 a request of 12:00:00 AM gives the same time of the next
\* day, a whole day ahead; at 23:59:59 it gives one second ahead
C27_Witness ==
    /\ result.done /\ probe.fn = "target"
    /\ probe.h = 12 /\ probe.m = 0 /\ probe.s = 0 /\ probe.ampm = "AM"
    /\ \/ probe.t = DaySeconds /\ result.target - probe.t = DaySeconds
       \/ probe.t = DaySeconds + 86399 /\ result.target - probe.t = 1

----------------------------------------------------------------------------
(* The recent-destination list on its own: SpecRecent adds names to the list
   as handleStart does after it has resolved a destination.  probe is the
   sequence of names added so far and result is recentDestinations. *)

MaxAdds == 6        \* addToRecent calls per behaviour
MaxRecent == 5      \* the list keeps the top 5

Names == {"A", "B", "C", "D", "E", "F"}

\* mutant of addToRecent: an entry of the same name is not removed
addToRecentKeepsDuplicate(recentDestinations, name, coords, stamp) ==
    LET newItem == [name |-> name, coords |-> coords, id |-> stamp]
        updated == <<newItem>> \o recentDestinations
    IN  SubSeq(updated, 1, Min(Len(updated), MaxRecent))

\* addToRecent(name, coords): the list it passes to setRecentDestinations;
\* stamp is Date.now()
addToRecent(recentDestinations, name, coords, stamp) ==
    LET newItem == [name |-> name, coords |-> coords, id |-> stamp]
        filtered == SelectSeq(recentDestinations, LAMBDA i : i.name # name)
        updated == <<newItem>> \o filtered
    IN  SubSeq(updated, 1, Min(Len(updated), MaxRecent))

RecentInit == InitEngine /\ variant = "hist" /\ probe = <<>> /\ result = <<>>

\* handleStart's addToRecent(destination, finalDest)
AddToRecent(name, coords) ==
    /\ Len(probe) < MaxAdds
    /\ result' = addToRecent(result, name, coords, now + Len(probe))
    /\ probe' = Append(probe, name)
    /\ UNCHANGED progVars

RecentNext == \E name \in Names, coords \in Dests : AddToRecent(name, coords)

SpecRecent == RecentInit /\ [][RecentNext]_vars

\* the names of a list, in its order
NamesOf(list) == [k \in 1..Len(list) |-> list[k].name]

\* the distinct names of a history of additions, the latest addition first
RECURSIVE RecencyOrder(_)
RecencyOrder(h) ==
    IF h = <<>> THEN <<>>
    ELSE LET last == h[Len(h)]
             before == SelectSeq(SubSeq(h, 1, Len(h) - 1), LAMBDA x : x # last)
         IN  <<last>> \o RecencyOrder(before)

\* C16: after any sequence of addToRecent calls the list has at most 5
\* entries, no two of one name, and lists the names most recently added
\* first, a name added again standing once, where its latest addition puts
\* it; adding A, B, A, C, D, E gives exactly E, D, C, A, B.
C16_RecentList ==
    LET order == RecencyOrder(probe)
    IN  /\ Len(result) <= MaxRecent
        /\ \A i, j \in 1..Len(result) : result[i].name = result[j].name => i = j
        /\ NamesOf(result) = SubSeq(order, 1, Min(Len(order), MaxRecent))
        /\ probe = <<"A", "B", "A", "C", "D", "E">> =>
               NamesOf(result) = <<"E", "D", "C", "A", "B">>

\* A, B, A, C, D, E have been added
C16_Witness ==
    /\ probe = <<"A", "B", "A", "C", "D", "E">>
    /\ NamesOf(result) = <<"E", "D", "C", "A", "B">>

====
